---- MODULE Spec2Model ----
(***************************************************************************)
(* libsac: the SAC header/body codec (src/src/lib.rs, src/src/binary.rs,   *)
(* src/src/enums.rs, src/src/sac.rs).                                      *)
(*                                                                         *)
(* A file is a sequence of bytes (0..255).  A 32-bit integer is the Int it *)
(* denotes; a 32-bit float is named by its IEEE-754 bit pattern read as a  *)
(* signed 32-bit integer (byteorder and bincode move the bits unchanged).  *)
(* The modelled SacBinary keeps one or two fields of every block of the    *)
(* header, in the block order of the struct: delta and internal1 (float),  *)
(* nvhdr and npts (int), iftype (enum), leven (bool), kstnm (string).      *)
(* The two channels are the fields x and y of lib.rs; x is the channel     *)
(* that write_out encodes first and y the one it encodes second.           *)
(***************************************************************************)
EXTENDS Integers, Sequences, FiniteSets, TLC

\* ------------------------------------------------------------------ bounds
\* longest channel a caller assigns to x or to y
MaxLen == 1
\* largest point count a caller or a fixture header declares
MaxNpts == 2
\* number of operations in one behaviour
MaxOps == 2
\* longest text a conversion is given byte by byte
MaxStr == 3

\* --------------------------------------------------------------- constants
SAC_HEADER_MAJOR_VERSION == 6
SAC_INT_UNDEF == -12345
SAC_BOOL_UNDEF == 0
\* -12345.0f32 = 0xC640E400
SAC_FLOAT_UNDEF == -968825856
\* "-12345" followed by two spaces
SAC_STR8_UNDEF == <<45, 49, 50, 51, 52, 53, 32, 32>>
\* "-12345" followed by ten spaces
SAC_STR16_UNDEF == <<45, 49, 50, 51, 52, 53, 32, 32, 32, 32, 32, 32, 32, 32, 32, 32>>
ITIME == 1
IRLIM == 2
IAMPH == 3
IXY == 4
IXYZ == 51

Endian == {"Little", "Big"}

\* ------------------------------------------------------- numeric encoding
\* bincode fixed-int / byteorder: the four bytes of a 32-bit two's
\* complement word, least significant first (Little) or last (Big)
WordBytes(v, e) ==
    LET b0 == v % 256
        v1 == (v - b0) \div 256
        b1 == v1 % 256
        v2 == (v1 - b1) \div 256
        b2 == v2 % 256
        v3 == (v2 - b2) \div 256
        b3 == v3 % 256
    IN  IF e = "Little" THEN <<b0, b1, b2, b3>> ELSE <<b3, b2, b1, b0>>

\* the 32-bit two's complement word held in four bytes
WordOf(b, e) ==
    LET l == IF e = "Little" THEN b ELSE <<b[4], b[3], b[2], b[1]>>
        top == IF l[4] >= 128 THEN l[4] - 256 ELSE l[4]
    IN  ((top * 256 + l[3]) * 256 + l[2]) * 256 + l[1]

\* ------------------------------------------------------------ strings
\* std::str::from_utf8: whether the bytes are well-formed UTF-8
IsCont(b) == b >= 128 /\ b <= 191

RECURSIVE IsUtf8(_)
IsUtf8(s) ==
    IF s = <<>> THEN TRUE
    ELSE LET a == s[1]
             n == Len(s)
             rest(k) == SubSeq(s, k + 1, n)
         IN  IF a < 128 THEN IsUtf8(rest(1))
             ELSE IF a >= 194 /\ a <= 223
                  THEN n >= 2 /\ IsCont(s[2]) /\ IsUtf8(rest(2))
             ELSE IF a >= 224 /\ a <= 239
                  THEN /\ n >= 3
                       /\ IsCont(s[2]) /\ IsCont(s[3])
                       /\ (a = 224 => s[2] >= 160)
                       /\ (a = 237 => s[2] <= 159)
                       /\ IsUtf8(rest(3))
             ELSE IF a >= 240 /\ a <= 244
                  THEN /\ n >= 4
                       /\ IsCont(s[2]) /\ IsCont(s[3]) /\ IsCont(s[4])
                       /\ (a = 240 => s[2] >= 144)
                       /\ (a = 244 => s[2] <= 143)
                       /\ IsUtf8(rest(4))
             ELSE FALSE

\* char::is_whitespace on the one-byte characters
IsSpace(b) == b = 32 \/ (b >= 9 /\ b <= 13)

\* char::is_whitespace on the characters of two and three bytes: U+0085,
\* U+00A0, U+1680, U+2000..U+200A, U+2028, U+2029, U+202F, U+205F, U+3000
IsSpace2(a, b) == a = 194 /\ (b = 133 \/ b = 160)

IsSpace3(a, b, c) ==
    \/ a = 225 /\ b = 154 /\ c = 128
    \/ a = 226 /\ b = 128 /\ ((c >= 128 /\ c <= 138) \/ c = 168 \/ c = 169 \/ c = 175)
    \/ a = 226 /\ b = 129 /\ c = 159
    \/ a = 227 /\ b = 128 /\ c = 128

\* the number of bytes of the whitespace character a text starts with and
\* ends with, 0 when that character is no whitespace
WsPrefix(s) ==
    LET n == Len(s) IN
    IF n >= 1 /\ IsSpace(s[1]) THEN 1
    ELSE IF n >= 2 /\ IsSpace2(s[1], s[2]) THEN 2
    ELSE IF n >= 3 /\ IsSpace3(s[1], s[2], s[3]) THEN 3
    ELSE 0

WsSuffix(s) ==
    LET n == Len(s) IN
    IF n >= 1 /\ IsSpace(s[n]) THEN 1
    ELSE IF n >= 2 /\ IsSpace2(s[n - 1], s[n]) THEN 2
    ELSE IF n >= 3 /\ IsSpace3(s[n - 2], s[n - 1], s[n]) THEN 3
    ELSE 0

RECURSIVE TrimStart(_)
TrimStart(s) ==
    IF WsPrefix(s) > 0 THEN TrimStart(SubSeq(s, WsPrefix(s) + 1, Len(s))) ELSE s

RECURSIVE TrimEnd(_)
TrimEnd(s) ==
    IF WsSuffix(s) > 0 THEN TrimEnd(SubSeq(s, 1, Len(s) - WsSuffix(s))) ELSE s

\* str::trim
Trim(s) == TrimEnd(TrimStart(s))

\* "-12345"
SentinelStr == SubSeq(SAC_STR8_UNDEF, 1, 6)

\* write_string filling the field with NUL bytes
write_string_nul(v, N, length) ==
    LET k == IF Len(v) < length THEN Len(v) ELSE length
    IN  [i \in 1..N |-> IF i <= k THEN v[i] ELSE 0]

\* write_string that keeps the last byte of the field for a blank
write_string_short(v, N, length) ==
    LET k == IF Len(v) < length - 1 THEN Len(v) ELSE length - 1
    IN  [i \in 1..N |-> IF i <= k THEN v[i] ELSE 32]

\* write_string::<N>(v, length): N spaces, the first min(len, length) bytes
\* of v copied over them
write_string(v, N, length) ==
    LET k == IF Len(v) < length THEN Len(v) ELSE length
    IN  [i \in 1..N |-> IF i <= k THEN v[i] ELSE 32]

\* read_string with trim_end for trim
read_string_trim_end(v) == TrimEnd(IF IsUtf8(v) THEN v ELSE SentinelStr)

\* read_string: from_utf8(v).unwrap_or("-12345").trim().to_string()
read_string(v) == Trim(IF IsUtf8(v) THEN v ELSE SentinelStr)

\* ----------------------------------------------------------- file type
\* From<i32> dropping the code of an unrecognised type
FileTypeFrom_fixed(t) ==
    CASE t = ITIME -> <<"Time">>
      [] t = IRLIM -> <<"RealImag">>
      [] t = IAMPH -> <<"AmpPhase">>
      [] t = IXY -> <<"XY">>
      [] t = IXYZ -> <<"XYZ">>
      [] OTHER -> <<"Unknown", SAC_INT_UNDEF>>

\* impl From<i32> for SacFileType
FileTypeFrom(t) ==
    CASE t = ITIME -> <<"Time">>
      [] t = IRLIM -> <<"RealImag">>
      [] t = IAMPH -> <<"AmpPhase">>
      [] t = IXY -> <<"XY">>
      [] t = IXYZ -> <<"XYZ">>
      [] OTHER -> <<"Unknown", t>>

\* From<SacFileType> for i32 giving the sentinel for an unrecognised type
FileTypeInto_undef(t) ==
    CASE t[1] = "Time" -> ITIME
      [] t[1] = "RealImag" -> IRLIM
      [] t[1] = "AmpPhase" -> IAMPH
      [] t[1] = "XY" -> IXY
      [] t[1] = "XYZ" -> IXYZ
      [] OTHER -> SAC_INT_UNDEF

\* impl From<SacFileType> for i32
FileTypeInto(t) ==
    CASE t[1] = "Time" -> ITIME
      [] t[1] = "RealImag" -> IRLIM
      [] t[1] = "AmpPhase" -> IAMPH
      [] t[1] = "XY" -> IXY
      [] t[1] = "XYZ" -> IXYZ
      [] OTHER -> t[2]

\* ---------------------------------------------------------- header codec
\* size_of::<SacBinary>() of the modelled struct: six 4-byte words and one
\* 8-byte string
SAC_HEADER_SIZE == 4 * 6 + 8

\* Default with the supported version and no points
SacBinaryDefault_v6 ==
    [delta |-> SAC_FLOAT_UNDEF, internal1 |-> SAC_FLOAT_UNDEF,
     nvhdr |-> SAC_HEADER_MAJOR_VERSION, npts |-> 0,
     iftype |-> SAC_INT_UNDEF, leven |-> SAC_BOOL_UNDEF,
     kstnm |-> SAC_STR8_UNDEF]

\* impl Default for SacBinary
SacBinaryDefault ==
    [delta |-> SAC_FLOAT_UNDEF, internal1 |-> SAC_FLOAT_UNDEF,
     nvhdr |-> SAC_INT_UNDEF, npts |-> SAC_INT_UNDEF,
     iftype |-> SAC_INT_UNDEF, leven |-> SAC_BOOL_UNDEF,
     kstnm |-> SAC_STR8_UNDEF]

\* SacBinary::from that fills the reserved field with zero
SacBinaryFrom_zero_reserved(h) ==
    [delta |-> h.delta, internal1 |-> 0,
     nvhdr |-> h.nvhdr, npts |-> h.npts,
     iftype |-> FileTypeInto(h.iftype),
     leven |-> IF h.leven THEN 1 ELSE 0,
     kstnm |-> write_string(h.kstnm, 8, 8)]

\* what SacBinary::from assigns to the reserved fields, whatever the document
SacBinaryFromReserved ==
    [internal1 |-> SAC_FLOAT_UNDEF, internal2 |-> SAC_FLOAT_UNDEF,
     internal3 |-> SAC_FLOAT_UNDEF, internal4 |-> SAC_INT_UNDEF,
     unused0 |-> [i \in 1..7 |-> SAC_FLOAT_UNDEF],
     unused1 |-> SAC_INT_UNDEF, unused2 |-> SAC_INT_UNDEF,
     unused3 |-> [i \in 1..8 |-> SAC_INT_UNDEF],
     unused4 |-> SAC_BOOL_UNDEF]

\* SacBinary::from(&Sac): the reserved field is the sentinel, the rest is
\* copied or converted from the document's header
SacBinaryFrom(h) ==
    [delta |-> h.delta, internal1 |-> SAC_FLOAT_UNDEF,
     nvhdr |-> h.nvhdr, npts |-> h.npts,
     iftype |-> FileTypeInto(h.iftype),
     leven |-> IF h.leven THEN 1 ELSE 0,
     kstnm |-> write_string(h.kstnm, 8, 8)]

\* the header part of Sac::build
BuildHeader(v) ==
    [delta |-> v.delta, nvhdr |-> v.nvhdr, npts |-> v.npts,
     iftype |-> FileTypeFrom(v.iftype), leven |-> (v.leven = 1),
     kstnm |-> read_string(v.kstnm)]

\* Sac::build(v, p, e): empty channels
build(v, p, e) ==
    [live |-> TRUE, path |-> p, endian |-> e, h |-> BuildHeader(v),
     x |-> <<>>, y |-> <<>>]

\* no document held
NoSac == [live |-> FALSE]

\* SacBinary::encode_header: the fields in struct order, every word in the
\* configured byte order; the buffer has exactly the encoded size
encode_header(val, e) ==
    WordBytes(val.delta, e) \o WordBytes(val.internal1, e)
      \o WordBytes(val.nvhdr, e) \o WordBytes(val.npts, e)
      \o WordBytes(val.iftype, e) \o WordBytes(val.leven, e)
      \o val.kstnm

\* decode_header that reads every word least significant byte first
decode_header_little(src, e) ==
    IF Len(src) < SAC_HEADER_SIZE THEN [ok |-> FALSE]
    ELSE [ok |-> TRUE,
          v |-> [delta |-> WordOf(SubSeq(src, 1, 4), "Little"),
                 internal1 |-> WordOf(SubSeq(src, 5, 8), "Little"),
                 nvhdr |-> WordOf(SubSeq(src, 9, 12), "Little"),
                 npts |-> WordOf(SubSeq(src, 13, 16), "Little"),
                 iftype |-> WordOf(SubSeq(src, 17, 20), "Little"),
                 leven |-> WordOf(SubSeq(src, 21, 24), "Little"),
                 kstnm |-> SubSeq(src, 25, 32)]]

\* SacBinary::decode_header: fails only when the slice ends early
decode_header(src, e) ==
    IF Len(src) < SAC_HEADER_SIZE THEN [ok |-> FALSE]
    ELSE [ok |-> TRUE,
          v |-> [delta |-> WordOf(SubSeq(src, 1, 4), e),
                 internal1 |-> WordOf(SubSeq(src, 5, 8), e),
                 nvhdr |-> WordOf(SubSeq(src, 9, 12), e),
                 npts |-> WordOf(SubSeq(src, 13, 16), e),
                 iftype |-> WordOf(SubSeq(src, 17, 20), e),
                 leven |-> WordOf(SubSeq(src, 21, 24), e),
                 kstnm |-> SubSeq(src, 25, 32)]]

\* SacBinary::decode_data: src.chunks(4).map(read_f32); byteorder's read_f32
\* panics on a chunk shorter than 4 bytes, which is the last chunk when the
\* length is no multiple of 4
decode_data(src, e) ==
    IF Len(src) % 4 # 0 THEN [panic |-> TRUE]
    ELSE [panic |-> FALSE,
          v |-> [i \in 1..(Len(src) \div 4) |->
                    WordOf(SubSeq(src, 4 * i - 3, 4 * i), e)]]

\* encode_data that writes every sample least significant byte first
encode_data_little(val, e) ==
    [i \in 1..(4 * Len(val)) |->
        WordBytes(val[((i - 1) \div 4) + 1], "Little")[((i - 1) % 4) + 1]]

\* SacBinary::encode_data: four bytes per sample, in order
encode_data(val, e) ==
    [i \in 1..(4 * Len(val)) |-> WordBytes(val[((i - 1) \div 4) + 1], e)[((i - 1) % 4) + 1]]

\* ------------------------------------------------------------ validation
Ok == <<"Ok">>

\* check_header without the version test
check_header_any_version(h) ==
    IF h.iftype[1] = "XYZ"
    THEN <<"Unsupported", "Unsupported file type: ", h.iftype>>
    ELSE IF h.iftype[1] = "Unknown"
         THEN <<"Unsupported", "Unknown file type: ", h.iftype>>
    ELSE Ok

\* check_header that lets the XYZ type pass
check_header_xyz_ok(h) ==
    IF h.nvhdr # SAC_HEADER_MAJOR_VERSION
    THEN <<"Unsupported", "Unsupported header version: ", h.nvhdr>>
    ELSE IF h.iftype[1] = "Unknown"
         THEN <<"Unsupported", "Unknown file type: ", h.iftype>>
    ELSE Ok

\* SacHeader::check_header
check_header(h) ==
    IF h.nvhdr # SAC_HEADER_MAJOR_VERSION
    THEN <<"Unsupported", "Unsupported header version: ", h.nvhdr>>
    ELSE IF h.iftype[1] = "XYZ"
         THEN <<"Unsupported", "Unsupported file type: ", h.iftype>>
    ELSE IF h.iftype[1] = "Unknown"
         THEN <<"Unsupported", "Unknown file type: ", h.iftype>>
    ELSE Ok

\* ------------------------------------------------------------------ inputs
Paths == {"a", "b"}

\* 0.01f32, -0.09728001f32 and -0.0768f32, by their bits
F_DELTA == 1008981770
F_FIRST == -1111016770
F_LAST == -1113765550

\* "CDV", "STATION01" (longer than the field) and " A" (leading blank)
STR_CDV == <<67, 68, 86>>
STR_LONG == <<83, 84, 65, 84, 73, 79, 78, 48, 49>>
STR_BLANK_A == <<32, 65>>

\* the first n samples of a stream of pairwise different samples
Stream(base, n) == [i \in 1..n |-> base + (i - 1)]

\* what a caller assigns to x (every length) and to y (empty or full)
XInputs == {Stream(F_FIRST, k) : k \in 0..MaxLen}
YInputs == {Stream(F_LAST, k) : k \in {0, MaxLen}}

\* the samples of a file made outside the codec
BodyInputs == {Stream(F_FIRST, k) : k \in 0..(2 * MaxLen)}

NptsInputs == (0..MaxNpts) \cup {SAC_INT_UNDEF}

Header(d, v, n, t, l, k) ==
    [delta |-> d, nvhdr |-> v, npts |-> n, iftype |-> t, leven |-> l, kstnm |-> k]

\* the header of Sac::new with the file type set to XY
DefaultXY == [BuildHeader(SacBinaryDefault) EXCEPT !.iftype = <<"XY">>]

\* the headers a caller builds: every layout with every point count, the
\* strings that do not fit their field, each rejected version and type
HeaderInputs ==
    {Header(F_DELTA, SAC_HEADER_MAJOR_VERSION, n, t, l, STR_CDV) :
        n \in NptsInputs, t \in {<<"Time">>, <<"XY">>}, l \in BOOLEAN}
    \cup
    {Header(SAC_FLOAT_UNDEF, SAC_HEADER_MAJOR_VERSION, 1, <<"Time">>, TRUE, k) :
        k \in {SentinelStr, STR_LONG, STR_BLANK_A}}
    \cup
    {Header(F_DELTA, SAC_HEADER_MAJOR_VERSION, 0, t, TRUE, STR_CDV) :
        t \in {<<"XYZ">>, <<"Unknown", 7>>}}
    \cup
    {Header(F_DELTA, SAC_INT_UNDEF, 0, t, TRUE, STR_CDV) :
        t \in {<<"Time">>, <<"Unknown", 7>>}}
    \cup {DefaultXY}

\* the headers Sac::set_header is given
SetInputs ==
    {Header(F_DELTA, SAC_HEADER_MAJOR_VERSION, 1, <<"Time">>, TRUE, STR_CDV),
     Header(F_DELTA, SAC_HEADER_MAJOR_VERSION, 1, <<"XY">>, FALSE, STR_CDV),
     Header(F_DELTA, SAC_HEADER_MAJOR_VERSION, 0, <<"Unknown", 7>>, TRUE, STR_CDV),
     Header(F_DELTA, SAC_INT_UNDEF, 0, <<"Time">>, TRUE, STR_CDV)}

\* --------------------------------------------------------------------- state
VARIABLES
    fs,     \* path -> file: exists, bytes, and the history of its last writes
    sac,    \* the document the caller holds, or NoSac
    res,    \* the last operation: op, path, byte order, result
    nops,   \* operations done
    conv    \* the last in-memory conversion: op, its input and its output

vars == <<fs, sac, res, nops, conv>>

\* no conversion made
NoConv == [op |-> "none"]

\* a path with no file
Absent == [exists |-> FALSE, bytes |-> <<>>, horder |-> "none", border |-> "none",
           from |-> NoSac]

\* a file made outside the codec: header h and samples d under byte order o
Fixture(h, d, o) ==
    [exists |-> TRUE,
     bytes |-> encode_header(SacBinaryFrom(h), o) \o encode_data(d, o),
     horder |-> o, border |-> o, from |-> NoSac]

\* a file made outside the codec whose reserved field internal1 holds r
ReservedFixture(h, d, o, r) ==
    [exists |-> TRUE,
     bytes |-> encode_header([SacBinaryFrom(h) EXCEPT !.internal1 = r], o)
                 \o encode_data(d, o),
     horder |-> o, border |-> o, from |-> NoSac]

Panicked == res.r[1] = "panic"

\* ---------------------------------------------------------------- read_in
\* let h_buf = &f_buf[..SAC_HEADER_SIZE]
HeaderOf(f_buf) == SubSeq(f_buf, 1, SAC_HEADER_SIZE)

\* &f_buf[SAC_HEADER_SIZE..]
BodyOf(f_buf) == SubSeq(f_buf, SAC_HEADER_SIZE + 1, Len(f_buf))

\* `npts as usize` of a negative count is above every length, so
\* data[..size] is out of range exactly when npts < 0 or npts > data.len()
SliceOutOfRange(npts, len) == npts < 0 \/ npts > len

\* the layout with the two slices exchanged
layout_swapped(s, data) ==
    IF s.h.iftype = <<"Time">> /\ s.h.leven
    THEN [r |-> Ok, sac |-> [s EXCEPT !.y = data]]
    ELSE LET size == s.h.npts IN
         IF SliceOutOfRange(size, Len(data))
         THEN [r |-> <<"panic", "data[..size]">>]
         ELSE [r |-> Ok,
               sac |-> [s EXCEPT !.y = SubSeq(data, 1, size),
                                 !.x = SubSeq(data, size + 1, Len(data))]]

\* the layout decision of read_in once the samples are decoded: all of
\* them to y for an evenly sampled time series, else x = data[..size] and
\* y = data[size..], which panics when size is out of range
layout(s, data) ==
    IF s.h.iftype = <<"Time">> /\ s.h.leven
    THEN [r |-> Ok, sac |-> [s EXCEPT !.y = data]]
    ELSE LET size == s.h.npts IN
         IF SliceOutOfRange(size, Len(data))
         THEN [r |-> <<"panic", "data[..size]">>]
         ELSE [r |-> Ok,
               sac |-> [s EXCEPT !.x = SubSeq(data, 1, size),
                                 !.y = SubSeq(data, size + 1, Len(data))]]

\* read_in that decodes the samples before it looks at only_h
read_in_parse_first(p, e, only_h) ==
    IF ~fs[p].exists THEN [r |-> <<"IO", "open">>]
    ELSE LET f_buf == fs[p].bytes IN
    IF Len(f_buf) < SAC_HEADER_SIZE THEN [r |-> <<"panic", "f_buf[..SAC_HEADER_SIZE]">>]
    ELSE LET binary == decode_header(HeaderOf(f_buf), e) IN
    IF ~binary.ok THEN [r |-> <<"Unsupported", "decode">>]
    ELSE LET s == build(binary.v, p, e)
             chk == check_header(s.h) IN
    IF chk # Ok THEN [r |-> chk]
    ELSE LET data == decode_data(BodyOf(f_buf), e) IN
    IF data.panic THEN [r |-> <<"panic", "read_f32">>]
    ELSE IF only_h THEN [r |-> Ok, sac |-> s]
    ELSE layout(s, data.v)

\* read_in that returns the header of a header-only read unvalidated
read_in_header_unchecked(p, e, only_h) ==
    IF ~fs[p].exists THEN [r |-> <<"IO", "open">>]
    ELSE LET f_buf == fs[p].bytes IN
    IF Len(f_buf) < SAC_HEADER_SIZE THEN [r |-> <<"panic", "f_buf[..SAC_HEADER_SIZE]">>]
    ELSE LET binary == decode_header(HeaderOf(f_buf), e) IN
    IF ~binary.ok THEN [r |-> <<"Unsupported", "decode">>]
    ELSE LET s == build(binary.v, p, e)
             chk == check_header(s.h) IN
    IF only_h THEN [r |-> Ok, sac |-> s]
    ELSE IF chk # Ok THEN [r |-> chk]
    ELSE LET data == decode_data(BodyOf(f_buf), e) IN
    IF data.panic THEN [r |-> <<"panic", "read_f32">>]
    ELSE layout(s, data.v)

\* Sac::read_in(p, e, only_h): its result and, on Ok, the document
read_in(p, e, only_h) ==
    IF ~fs[p].exists THEN [r |-> <<"IO", "open">>]
    ELSE LET f_buf == fs[p].bytes IN
    IF Len(f_buf) < SAC_HEADER_SIZE THEN [r |-> <<"panic", "f_buf[..SAC_HEADER_SIZE]">>]
    ELSE LET binary == decode_header(HeaderOf(f_buf), e) IN
    IF ~binary.ok THEN [r |-> <<"Unsupported", "decode">>]
    ELSE LET s == build(binary.v, p, e)
             chk == check_header(s.h) IN
    IF chk # Ok THEN [r |-> chk]
    ELSE IF only_h THEN [r |-> Ok, sac |-> s]
    ELSE LET data == decode_data(BodyOf(f_buf), e) IN
    IF data.panic THEN [r |-> <<"panic", "read_f32">>]
    ELSE layout(s, data.v)

\* --------------------------------------------------------------- write_out
\* d_buf that is the encoded channels also for a header-only write
data_buf_channels(s, p, e, only_h) == encode_data(s.x \o s.y, e)

\* the d_buf of write_out: the bytes after the header of the file at p when
\* only the header is written, else x then y encoded
data_buf(s, p, e, only_h) ==
    IF only_h THEN BodyOf(fs[p].bytes) ELSE encode_data(s.x \o s.y, e)

\* the file of a write that opens p without truncating it: what a longer
\* file held after the written bytes stays
written_keep_tail(s, p, e, only_h, h_buf) ==
    LET new == h_buf \o data_buf(s, p, e, only_h)
        old == IF fs[p].exists THEN fs[p].bytes ELSE <<>>
    IN  [exists |-> TRUE,
         bytes |-> IF Len(old) > Len(new)
                   THEN new \o SubSeq(old, Len(new) + 1, Len(old)) ELSE new,
         horder |-> e,
         border |-> IF only_h THEN fs[p].border ELSE e,
         from |-> IF only_h THEN NoSac
                  ELSE [live |-> TRUE, endian |-> e, h |-> s.h, x |-> s.x, y |-> s.y]]

\* the file write_out leaves at p when it returns Ok; horder, border and
\* from record the byte order given to encode_header, the byte order of the
\* bytes after it, and the document of a full write
written(s, p, e, only_h, h_buf) ==
    [exists |-> TRUE, bytes |-> h_buf \o data_buf(s, p, e, only_h),
     horder |-> e,
     border |-> IF only_h THEN fs[p].border ELSE e,
     from |-> IF only_h THEN NoSac
              ELSE [live |-> TRUE, endian |-> e, h |-> s.h, x |-> s.x, y |-> s.y]]

\* write_checked that takes a missing file for a file with no body
write_checked_create(s, p, e, only_h) ==
    LET h_buf == encode_header(SacBinaryFrom(s.h), e) IN
    IF Len(h_buf) > SAC_HEADER_SIZE THEN [r |-> <<"Unsupported", "encode">>, f |-> fs[p]]
    ELSE IF only_h /\ fs[p].exists /\ Len(fs[p].bytes) < SAC_HEADER_SIZE
         THEN [r |-> <<"panic", "f_buf[SAC_HEADER_SIZE..]">>, f |-> fs[p]]
    ELSE [r |-> Ok, f |-> written(s, p, e, only_h, h_buf)]

\* write_out once the header passed validation: encode the header, take
\* the data bytes, create the file and write both
write_checked(s, p, e, only_h) ==
    LET h_buf == encode_header(SacBinaryFrom(s.h), e) IN
    IF Len(h_buf) > SAC_HEADER_SIZE THEN [r |-> <<"Unsupported", "encode">>, f |-> fs[p]]
    ELSE IF only_h /\ ~fs[p].exists THEN [r |-> <<"IO", "open">>, f |-> fs[p]]
    ELSE IF only_h /\ Len(fs[p].bytes) < SAC_HEADER_SIZE
         THEN [r |-> <<"panic", "f_buf[SAC_HEADER_SIZE..]">>, f |-> fs[p]]
    ELSE [r |-> Ok, f |-> written(s, p, e, only_h, h_buf)]

\* write_out with File::create moved above the validation
write_out_create_first(s, p, e, only_h) ==
    LET chk == check_header(s.h) IN
    IF chk # Ok THEN [r |-> chk, f |-> [fs[p] EXCEPT !.exists = TRUE, !.bytes = <<>>]]
    ELSE write_checked(s, p, e, only_h)

\* Sac::write_out(self, p, e, only_h): its result and the file at p after
\* it (File::create and write_all succeed on every path of the model)
write_out(s, p, e, only_h) ==
    LET chk == check_header(s.h) IN
    IF chk # Ok THEN [r |-> chk, f |-> fs[p]]
    ELSE write_checked(s, p, e, only_h)

\* ----------------------------------------------------------------- actions
Step(op, p, e, r) ==
    /\ res' = [op |-> op, path |-> p, e |-> e, r |-> r]
    /\ nops' = nops + 1
    /\ UNCHANGED conv

CanStep == nops < MaxOps /\ ~Panicked

\* Sac::new
New(p, e) ==
    /\ CanStep
    /\ sac' = build(SacBinaryDefault, p, e)
    /\ Step("new", p, e, Ok)
    /\ UNCHANGED fs

Reading(op, p, e, only_h) ==
    LET out == read_in(p, e, only_h) IN
    /\ CanStep
    /\ sac' = IF out.r = Ok THEN out.sac ELSE sac
    /\ Step(op, p, e, out.r)
    /\ UNCHANGED fs

\* Sac::read
Read(p, e) == Reading("read", p, e, FALSE)

\* Sac::read_header
ReadHeader(p, e) == Reading("read_header", p, e, TRUE)

\* set_header that validates its argument and keeps the old header when the
\* argument does not pass
SetHeader_checked(h) ==
    /\ CanStep
    /\ sac.live
    /\ sac' = IF check_header(h) = Ok THEN [sac EXCEPT !.h = h] ELSE sac
    /\ Step("set_header", sac.path, sac.endian, check_header(h))
    /\ UNCHANGED fs

\* Sac::set_header
SetHeader(h) ==
    /\ CanStep
    /\ sac.live
    /\ sac' = [sac EXCEPT !.h = h]
    /\ Step("set_header", sac.path, sac.endian, Ok)
    /\ UNCHANGED fs

\* Sac::set_endian
SetEndian(e) ==
    /\ CanStep
    /\ sac.live
    /\ sac' = [sac EXCEPT !.endian = e]
    /\ Step("set_endian", sac.path, e, Ok)
    /\ UNCHANGED fs

Writing(op, p, only_h) ==
    LET out == write_out(sac, p, sac.endian, only_h) IN
    /\ fs' = [fs EXCEPT ![p] = out.f]
    /\ Step(op, p, sac.endian, out.r)
    /\ UNCHANGED sac

\* Sac::write
Write ==
    /\ CanStep
    /\ sac.live
    /\ Writing("write", sac.path, FALSE)

\* write_to that makes p the path of the document
WriteTo_rebind(p) ==
    LET out == write_out(sac, p, sac.endian, FALSE) IN
    /\ CanStep
    /\ sac.live
    /\ fs' = [fs EXCEPT ![p] = out.f]
    /\ Step("write_to", p, sac.endian, out.r)
    /\ sac' = [sac EXCEPT !.path = p]

\* Sac::write_to
WriteTo(p) ==
    /\ CanStep
    /\ sac.live
    /\ Writing("write_to", p, FALSE)

\* Sac::write_header
WriteHeader ==
    /\ CanStep
    /\ sac.live
    /\ Writing("write_header", sac.path, TRUE)

\* ------------------------------------------------------------ specification
Doc(e, h, x, y) ==
    [live |-> TRUE, path |-> "a", endian |-> e, h |-> h, x |-> x, y |-> y]

\* a document a caller holds before the first operation: built by Sac::new
\* for path "a" and filled through its public fields
DocInputs ==
    {Doc(e, h, x, y) : e \in Endian, h \in HeaderInputs, x \in XInputs, y \in YInputs}

\* a file found at path "a" before the first operation
FixtureInputs ==
    {Fixture(h, d, o) : h \in HeaderInputs, d \in BodyInputs, o \in Endian}

\* a file cut to its first n bytes
Truncated(f, n) == [f EXCEPT !.bytes = SubSeq(f.bytes, 1, n)]

\* files that end inside the header or inside a sample: an evenly sampled
\* time series and an XY file of two samples, cut to nothing, to one byte
\* less than a header, to a header and one byte, to one sample and two bytes
CutLengths == {0, SAC_HEADER_SIZE - 1, SAC_HEADER_SIZE + 1, SAC_HEADER_SIZE + 6}

CutInputs ==
    {Truncated(Fixture(Header(F_DELTA, SAC_HEADER_MAJOR_VERSION, 1, t, TRUE, STR_CDV),
                       Stream(F_FIRST, 2), o), n) :
        t \in {<<"Time">>, <<"XY">>}, o \in Endian, n \in CutLengths}

\* a caller that holds a document for a path where a file already is: an
\* evenly sampled time series on disk, a document with empty or full channels
CoFixtures ==
    {Fixture(Header(F_DELTA, SAC_HEADER_MAJOR_VERSION, 1, <<"Time">>, TRUE, STR_CDV), d, o) :
        d \in BodyInputs, o \in Endian}

\* the cut files a document is held for: little-endian time series that end
\* inside the header or right after its first body byte
CoCuts ==
    {Truncated(Fixture(Header(F_DELTA, SAC_HEADER_MAJOR_VERSION, 1, <<"Time">>, TRUE, STR_CDV),
                       Stream(F_FIRST, 2), "Little"), n) :
        n \in {0, SAC_HEADER_SIZE - 1, SAC_HEADER_SIZE + 1}}

\* evenly sampled time series of one sample whose reserved field holds 0.01
ReservedInputs ==
    {ReservedFixture(Header(F_DELTA, SAC_HEADER_MAJOR_VERSION, 1, <<"Time">>, TRUE, STR_CDV),
                     Stream(F_FIRST, 1), o, F_DELTA) : o \in Endian}

\* the one of them a document is held for
CoReserved ==
    {ReservedFixture(Header(F_DELTA, SAC_HEADER_MAJOR_VERSION, 1, <<"Time">>, TRUE, STR_CDV),
                     Stream(F_FIRST, 1), "Little", F_DELTA)}

CoDocs ==
    {Doc(e, h, Stream(F_FIRST, k), Stream(F_LAST, k)) :
        e \in Endian, h \in SetInputs, k \in {0, MaxLen}}

Init ==
    /\ res = [op |-> "init", path |-> "a", e |-> "Little", r |-> Ok]
    /\ nops = 0
    /\ conv = NoConv
    /\ \/ /\ sac = NoSac
          /\ \E f \in FixtureInputs \cup CutInputs \cup ReservedInputs \cup {Absent} :
                fs = [p \in Paths |-> IF p = "a" THEN f ELSE Absent]
       \/ /\ sac \in DocInputs
          /\ fs = [p \in Paths |-> Absent]
       \/ /\ sac \in CoDocs
          /\ \E f \in CoFixtures \cup CoCuts \cup CoReserved :
                fs = [p \in Paths |-> IF p = "a" THEN f ELSE Absent]

Next ==
    \/ \E p \in Paths, e \in Endian : New(p, e)
    \/ \E p \in Paths, e \in Endian : Read(p, e)
    \/ \E p \in Paths, e \in Endian : ReadHeader(p, e)
    \/ \E h \in SetInputs : SetHeader(h)
    \/ \E e \in Endian : SetEndian(e)
    \/ Write
    \/ \E p \in Paths : WriteTo(p)
    \/ WriteHeader

Spec == Init /\ [][Next]_vars

\* ------------------------------------------------ in-memory conversions
\* The conversions between a document and a SacBinary do no I/O.  They are
\* applied here one at a time to texts, byte fields and type codes, with
\* the fields t, kevnm and kt that the file model above does not carry.
ARRAY_LEN == 10

\* impl Default for SacBinary: t, kevnm and kt
SacBinaryDefaultExt ==
    [t |-> [i \in 1..ARRAY_LEN |-> SAC_FLOAT_UNDEF],
     kevnm |-> SAC_STR16_UNDEF,
     kt |-> [i \in 1..ARRAY_LEN |-> SAC_STR8_UNDEF]]

\* kt of SacBinary::from that drops the last element
kt_from_nine(kt) ==
    [i \in 1..ARRAY_LEN |->
        IF i <= Len(kt) /\ i < ARRAY_LEN THEN write_string(kt[i], 8, 8)
        ELSE SAC_STR8_UNDEF]

\* kt of SacBinary::from: every element through write_string, the vector
\* resized to ten with the sentinel field, then copied into the array
kt_from(kt) ==
    [i \in 1..ARRAY_LEN |->
        IF i <= Len(kt) THEN write_string(kt[i], 8, 8) ELSE SAC_STR8_UNDEF]

\* kt of Sac::build: every element through read_string, the vector resized
\* to ten with "-12345  "
kt_build(kt) ==
    [i \in 1..ARRAY_LEN |->
        IF i <= Len(kt) THEN read_string(kt[i]) ELSE SAC_STR8_UNDEF]

\* SacBinary::from: t, kevnm and kt
SacBinaryFromExt(d) ==
    [t |-> d.t, kevnm |-> write_string(d.kevnm, 16, 16), kt |-> kt_from(d.kt)]

\* Sac::build: t, kevnm and kt
BuildHeaderExt(v) ==
    [t |-> v.t, kevnm |-> read_string(v.kevnm), kt |-> kt_build(v.kt)]

\* the bytes texts are made of: blank, "A", and the bytes of U+00A0 (a
\* whitespace character of two bytes) and of U+00A9 (no whitespace)
StrBytes == {32, 65, 194, 160, 169}

BytesUpTo(n) == UNION {[1..k -> StrBytes] : k \in 0..n}

\* 10.0f32 by its bits
F_TEN == 1092616192

\* "STATION0" (8 bytes), "ABCDEFG" followed by U+00A9 (9 bytes, the 8th and
\* 9th one character), "EVENT NAME 16CH+" (16 bytes) and one byte more
STR_STA8 == <<83, 84, 65, 84, 73, 79, 78, 48>>
STR_SPLIT == <<65, 66, 67, 68, 69, 70, 71, 194, 169>>
STR_EV16 == <<69, 86, 69, 78, 84, 32, 78, 65, 77, 69, 32, 49, 54, 67, 72, 43>>
STR_EV17 == STR_EV16 \o <<33>>

\* the values of a String: well-formed UTF-8
TextInputs ==
    {s \in BytesUpTo(MaxStr) : IsUtf8(s)}
      \cup {STR_CDV, SentinelStr, STR_STA8, STR_LONG, STR_SPLIT, STR_EV16, STR_EV17}

\* the values of a [u8; 8] and of a [u8; 16]: any bytes, here a short
\* sequence followed by blanks or by NUL bytes
FieldInputs ==
    {[i \in 1..w |-> IF i <= Len(s) THEN s[i] ELSE fill] :
        s \in BytesUpTo(MaxStr), w \in {8, 16}, fill \in {32, 0}}

\* the values of an i32 given as a type code
CodeInputs ==
    {-2147483647 - 1, SAC_INT_UNDEF, -1, 0, ITIME, IRLIM, IAMPH, IXY, 5, 7, 50, IXYZ, 52,
     2147483647}

\* what a conversion is given: a text and a field width, a byte field, a
\* type code, or nothing
ConvInputs ==
    {[op |-> "text", v |-> v, w |-> w] : v \in TextInputs, w \in {8, 16}}
      \cup {[op |-> "field", v |-> b] : b \in FieldInputs}
      \cup {[op |-> "code", c |-> c] : c \in CodeInputs}
      \cup {NoConv}

\* write_string::<w>(v, w)
WriteString ==
    /\ conv.op = "text"
    /\ conv' = [op |-> "write_string", v |-> conv.v, w |-> conv.w,
                out |-> write_string(conv.v, conv.w, conv.w)]
    /\ UNCHANGED <<fs, sac, res, nops>>

\* read_string(b), of a given field or of the field write_string made
ReadString ==
    /\ conv.op \in {"field", "write_string"}
    /\ LET b == IF conv.op = "field" THEN conv.v ELSE conv.out
       IN  conv' = [op |-> "read_string", v |-> b, out |-> read_string(b),
                    text |-> IF conv.op = "field" THEN <<"None">>
                             ELSE <<"Some", conv.v, conv.w>>]
    /\ UNCHANGED <<fs, sac, res, nops>>

\* SacBinary::from then Sac::build, on a document with the text v in kstnm,
\* in kevnm and in kt[j], and 10.0 in t[j]
FromBuild(j) ==
    LET v == conv.v
        h == Header(F_DELTA, SAC_HEADER_MAJOR_VERSION, 1, <<"Time">>, TRUE, v)
        d == [t |-> [i \in 1..ARRAY_LEN |-> IF i = j THEN F_TEN ELSE SAC_FLOAT_UNDEF],
              kevnm |-> v,
              kt |-> [i \in 1..ARRAY_LEN |-> IF i = j THEN v ELSE SentinelStr]]
        bin == SacBinaryFrom(h)
        binx == SacBinaryFromExt(d)
    IN  /\ conv.op = "text"
        /\ conv' = [op |-> "from_build", v |-> v, j |-> j,
                    bin |-> [kstnm |-> bin.kstnm, kevnm |-> binx.kevnm, kt |-> binx.kt],
                    out |-> [kstnm |-> BuildHeader(bin).kstnm,
                             kevnm |-> BuildHeaderExt(binx).kevnm,
                             kt |-> BuildHeaderExt(binx).kt,
                             t |-> BuildHeaderExt(binx).t]]
        /\ UNCHANGED <<fs, sac, res, nops>>

\* SacFileType::from(c)
TypeFrom ==
    /\ conv.op = "code"
    /\ conv' = [op |-> "from_i32", c |-> conv.c, out |-> FileTypeFrom(conv.c)]
    /\ UNCHANGED <<fs, sac, res, nops>>

\* i32::from(t) of the type the last conversion gave
TypeInto ==
    /\ conv.op = "from_i32"
    /\ conv' = [op |-> "into_i32", c |-> conv.c, t |-> conv.out,
                out |-> FileTypeInto(conv.out)]
    /\ UNCHANGED <<fs, sac, res, nops>>

\* Sac::new(p, e) with all the modelled fields
NewDoc(p, e) ==
    /\ conv.op = "none"
    /\ conv' = [op |-> "new", sac |-> build(SacBinaryDefault, p, e),
                ext |-> BuildHeaderExt(SacBinaryDefaultExt)]
    /\ UNCHANGED <<fs, sac, res, nops>>

PureInit ==
    /\ fs = [p \in Paths |-> Absent]
    /\ sac = NoSac
    /\ res = [op |-> "init", path |-> "a", e |-> "Little", r |-> Ok]
    /\ nops = 0
    /\ conv \in ConvInputs

PureNext ==
    \/ WriteString
    \/ ReadString
    \/ \E j \in {1, ARRAY_LEN} : FromBuild(j)
    \/ TypeFrom
    \/ TypeInto
    \/ \E p \in Paths, e \in Endian : NewDoc(p, e)

PureSpec == PureInit /\ [][PureNext]_vars

\* ------------------------------------------------------------------ claims
\* first and second of the specification are the channels x and y of
\* lib.rs: x is encoded first by write_out and holds data[..npts] after a
\* paired read, y is encoded second and holds data[npts..]
First(s) == s.x
Second(s) == s.y

Writes == {"write", "write_to", "write_header"}
FullWrites == {"write", "write_to"}

\* the file the last operation was about
File == fs[res.path]

\* whether the last operation found a file long enough to hold a header
HasHeader(f) == f.exists /\ Len(f.bytes) >= SAC_HEADER_SIZE

\* the header a file holds when read under byte order e
HeaderUnder(f, e) == BuildHeader(decode_header(HeaderOf(f.bytes), e).v)

\* the samples a file holds when read under byte order e
WholeBody(f) == Len(BodyOf(f.bytes)) % 4 = 0
SamplesUnder(f, e) == decode_data(BodyOf(f.bytes), e).v

TimeEven(h) == h.iftype = <<"Time">> /\ h.leven

\* a string that fits a field of width w: ASCII, at most w bytes, no
\* leading or trailing whitespace
Fits(k, w) == Len(k) <= w /\ (\A i \in 1..Len(k) : k[i] < 128) /\ Trim(k) = k

VersionError(n) == <<"Unsupported", "Unsupported header version: ", n>>
UnknownTypeError(c) == <<"Unsupported", "Unknown file type: ", <<"Unknown", c>>>>
XYZTypeError == <<"Unsupported", "Unsupported file type: ", <<"XYZ">>>>

C2_RoundTrip ==
    /\ (res.op \in FullWrites /\ sac.h.nvhdr = SAC_HEADER_MAJOR_VERSION
          /\ sac.h.iftype[1] \in {"Time", "RealImag", "AmpPhase", "XY"}) => res.r = Ok
    /\ (res.op = "read" /\ File.from.live /\ File.from.endian = res.e) =>
          /\ res.r = Ok
          /\ sac.h = File.from.h
          /\ First(sac) \o Second(sac) = First(File.from) \o Second(File.from)

\* C2 amended: a document with version 6 and type Time, RealImag, AmpPhase
\* or XY is written; reading the written file under the same byte order
\* returns a document unless the layout is paired and npts is negative or
\* above the number of samples written (then the read aborts); the document
\* returned has the numeric and boolean fields, first followed by second,
\* and every string that fits its field
C2_RoundTripAmended ==
    /\ (res.op \in FullWrites /\ sac.h.nvhdr = SAC_HEADER_MAJOR_VERSION
          /\ sac.h.iftype[1] \in {"Time", "RealImag", "AmpPhase", "XY"}) => res.r = Ok
    /\ (res.op = "read" /\ File.from.live /\ File.from.endian = res.e) =>
          LET D == File.from
              n == Len(First(D)) + Len(Second(D))
          IN  /\ res.r = IF ~TimeEven(D.h) /\ SliceOutOfRange(D.h.npts, n)
                         THEN <<"panic", "data[..size]">> ELSE Ok
              /\ res.r = Ok =>
                    /\ First(sac) \o Second(sac) = First(D) \o Second(D)
                    /\ sac.h.delta = D.h.delta
                    /\ sac.h.nvhdr = D.h.nvhdr
                    /\ sac.h.npts = D.h.npts
                    /\ sac.h.iftype = D.h.iftype
                    /\ sac.h.leven = D.h.leven
                    /\ Fits(D.h.kstnm, 8) => sac.h.kstnm = D.h.kstnm

\* C2: a big-endian file written from a document with both channels filled
\* was read back big-endian
C2_Witness ==
    /\ res.op = "read" /\ res.r = Ok /\ res.e = "Big"
    /\ File.from.live /\ File.from.endian = "Big"
    /\ Len(First(File.from)) > 0 /\ Len(Second(File.from)) > 0
    /\ sac.h = File.from.h /\ sac.h.kstnm = STR_CDV

\* C3 as stated: the document of Sac::new with the file type set to XY is
\* written by write, and read gives it back with sample interval -12345.0,
\* point count 0, station name "-12345" and empty channels
C3_NewRoundTrip ==
    /\ (res.op = "write" /\ sac.h = DefaultXY
          /\ First(sac) = <<>> /\ Second(sac) = <<>>) => res.r = Ok
    /\ (res.op = "read" /\ File.from.live /\ File.from.endian = res.e
          /\ File.from.h = DefaultXY
          /\ First(File.from) = <<>> /\ Second(File.from) = <<>>) =>
          /\ res.r = Ok
          /\ sac.h.delta = SAC_FLOAT_UNDEF /\ sac.h.npts = 0
          /\ sac.h.kstnm = SentinelStr
          /\ First(sac) = <<>> /\ Second(sac) = <<>>

\* C4 as stated: after a full read of an evenly sampled time series, first
\* holds every sample of the body in file order and second is empty
C4_TimeEvenLayout ==
    (res.op = "read" /\ res.r = Ok /\ TimeEven(sac.h)) =>
        /\ First(sac) = SamplesUnder(File, res.e)
        /\ Second(sac) = <<>>

\* C5: a full read of a file whose header passes validation, is no evenly
\* sampled time series and declares 0 <= npts <= the samples of the body
\* succeeds with first the first npts samples and second the rest; XY with
\* K points and 2K samples gives K and K
C5_PairedLayout ==
    (res.op = "read" /\ HasHeader(File)) =>
        LET h == HeaderUnder(File, res.e)
            n == Len(BodyOf(File.bytes)) \div 4
        IN  (check_header(h) = Ok /\ ~TimeEven(h) /\ WholeBody(File)
               /\ 0 <= h.npts /\ h.npts <= n) =>
                /\ res.r = Ok
                /\ First(sac) = SubSeq(SamplesUnder(File, res.e), 1, h.npts)
                /\ Second(sac) = SubSeq(SamplesUnder(File, res.e), h.npts + 1, n)
                /\ First(sac) \o Second(sac) = SamplesUnder(File, res.e)
                /\ (h.iftype = <<"XY">> /\ n = 2 * h.npts) =>
                      Len(First(sac)) = h.npts /\ Len(Second(sac)) = h.npts

\* C5: an XY file with one point and two samples was read
C5_Witness ==
    /\ res.op = "read" /\ res.r = Ok
    /\ sac.h.iftype = <<"XY">> /\ sac.h.npts = 1
    /\ Len(First(sac)) = 1 /\ Len(Second(sac)) = 1
    /\ First(sac) # Second(sac)

\* C6 as stated: a full read in the paired layout of a body with fewer
\* samples than npts succeeds with every sample in first and second empty,
\* and no read in the paired layout aborts
C6_ClampTruncated ==
    (res.op = "read" /\ HasHeader(File) /\ WholeBody(File)) =>
        LET h == HeaderUnder(File, res.e)
            n == Len(BodyOf(File.bytes)) \div 4
        IN  (check_header(h) = Ok /\ ~TimeEven(h)) =>
                /\ res.r = Ok
                /\ h.npts > n =>
                      /\ First(sac) = SamplesUnder(File, res.e)
                      /\ Second(sac) = <<>>

\* C7: a document whose version is not 6 is rejected by write, write_to
\* and write_header, and a file whose version field decodes to n # 6 is
\* rejected by read and read_header, with the failure that carries n
C7_VersionRejected ==
    /\ (res.op \in Writes /\ sac.h.nvhdr # SAC_HEADER_MAJOR_VERSION) =>
          res.r = VersionError(sac.h.nvhdr)
    /\ (res.op \in {"read", "read_header"} /\ HasHeader(File)
          /\ HeaderUnder(File, res.e).nvhdr # SAC_HEADER_MAJOR_VERSION) =>
          res.r = VersionError(decode_header(HeaderOf(File.bytes), res.e).v.nvhdr)

\* C7: a file with the version sentinel was read and rejected
C7_Witness ==
    /\ res.op = "read" /\ res.r = VersionError(SAC_INT_UNDEF)
    /\ HasHeader(File)

\* C8: with version 6 and a type code c outside 1, 2, 3, 4 and 51, the
\* reads and the writes fail with the failure that carries c
C8_UnknownTypeRejected ==
    /\ (res.op \in Writes /\ sac.h.nvhdr = SAC_HEADER_MAJOR_VERSION
          /\ sac.h.iftype[1] = "Unknown") =>
          res.r = UnknownTypeError(sac.h.iftype[2])
    /\ (res.op \in {"read", "read_header"} /\ HasHeader(File)) =>
          LET v == decode_header(HeaderOf(File.bytes), res.e).v
          IN  (v.nvhdr = SAC_HEADER_MAJOR_VERSION
                 /\ v.iftype \notin {ITIME, IRLIM, IAMPH, IXY, IXYZ}) =>
                  res.r = UnknownTypeError(v.iftype)

\* C8: a file with type code 7 was read and rejected with that code
C8_Witness ==
    /\ res.op = "read" /\ res.r = UnknownTypeError(7)
    /\ HasHeader(File)

\* C9: a write, write_to or write_header that fails validation or header
\* encoding returns that failure and changes no file: none is created,
\* truncated or modified
C9_FailedWriteKeepsFile ==
    [][res'.op \in Writes =>
        /\ check_header(sac.h) # Ok => res'.r = check_header(sac.h)
        /\ res'.r[1] = "Unsupported" => fs' = fs]_vars

\* C9: a full write by a rejected document met an existing file with a body
C9_Witness ==
    /\ res.op = "write" /\ res.r[1] = "Unsupported"
    /\ File.exists /\ Len(BodyOf(File.bytes)) > 0

\* C10 as stated: every file that holds samples has its header and its
\* body in one byte order
C10_OneByteOrder ==
    \A p \in Paths :
        (fs[p].exists /\ Len(BodyOf(fs[p].bytes)) > 0) => fs[p].horder = fs[p].border

\* C10 amended: a successful write or write_to leaves header and body both
\* in the document's byte order; a successful write_header leaves the
\* header in the document's byte order and the body in the order it had
C10_FullWriteOneByteOrder ==
    [][(res'.op \in Writes /\ res'.r = Ok) =>
        LET p == res'.path
            f == fs'[p]
        IN  /\ f.horder = sac.endian
            /\ decode_header(HeaderOf(f.bytes), sac.endian).v = SacBinaryFrom(sac.h)
            /\ res'.op \in FullWrites =>
                  /\ f.border = sac.endian
                  /\ WholeBody(f)
                  /\ SamplesUnder(f, sac.endian) = First(sac) \o Second(sac)
            /\ res'.op = "write_header" => f.border = fs[p].border]_vars

\* C10: a big-endian full write of a document with samples
C10_Witness ==
    /\ res.op = "write_to" /\ res.r = Ok /\ sac.endian = "Big"
    /\ Len(First(sac)) > 0
    /\ File.horder = "Big" /\ File.border = "Big"

\* C11: read_header of a file whose first SAC_HEADER_SIZE bytes decode to a
\* header that passes validation succeeds, whatever follows the header,
\* with both channels empty and the header a full read of the file gives
C11_HeaderOnlySkipsBody ==
    (res.op = "read_header" /\ HasHeader(File)) =>
        LET h == HeaderUnder(File, res.e)
            full == read_in(res.path, res.e, FALSE)
        IN  check_header(h) = Ok =>
                /\ res.r = Ok
                /\ First(sac) = <<>> /\ Second(sac) = <<>>
                /\ sac.h = h
                /\ sac.path = res.path /\ sac.endian = res.e
                /\ full.r = Ok => full.sac.h = sac.h

\* C11: a header was read from a file that ends inside a sample
C11_Witness ==
    /\ res.op = "read_header" /\ res.r = Ok
    /\ Len(BodyOf(File.bytes)) > 4 /\ ~WholeBody(File)
    /\ First(sac) = <<>> /\ sac.h.kstnm = STR_CDV

\* C12 as stated: write_header for a path where no file is fails with an
\* IO failure and leaves no file at that path
C12_HeaderOnlyMissingFile ==
    [][(res'.op = "write_header" /\ ~fs[res'.path].exists) =>
        /\ res'.r[1] = "IO"
        /\ ~fs'[res'.path].exists]_vars

\* C12 amended: write_header for a path where no file is fails, with the
\* validation failure when the document does not pass validation and with
\* an IO failure when it does, and no file is changed or created
C12_HeaderOnlyMissingFileAmended ==
    [][(res'.op = "write_header" /\ ~fs[res'.path].exists) =>
        /\ res'.r = IF check_header(sac.h) # Ok THEN check_header(sac.h)
                     ELSE <<"IO", "open">>
        /\ ~fs'[res'.path].exists
        /\ fs' = fs]_vars

\* C12: a document that passes validation met no file at its path
C12_Witness ==
    /\ res.op = "write_header" /\ res.r[1] = "IO"
    /\ check_header(sac.h) = Ok
    /\ ~File.exists

\* C13 as stated: on a file shorter than SAC_HEADER_SIZE bytes, read and
\* read_header return the decode failure and write_header returns a typed
\* failure; none of them aborts
C13_ShortFileTyped ==
    (File.exists /\ Len(File.bytes) < SAC_HEADER_SIZE) =>
        /\ res.op \in {"read", "read_header"} => res.r = <<"Unsupported", "decode">>
        /\ res.op = "write_header" => res.r[1] \in {"Unsupported", "IO"}
        /\ ~Panicked

\* C14: write_string of a text v for a field of width w (8 or 16) gives
\* exactly w bytes, the first min(Len(v), w) bytes of v and then blanks, also
\* when v is longer than w; SacBinary::from gives kstnm and the elements of
\* kt the width 8 and kevnm the width 16
C14_StringEncode ==
    /\ conv.op = "write_string" =>
          LET k == IF Len(conv.v) < conv.w THEN Len(conv.v) ELSE conv.w
          IN  /\ Len(conv.out) = conv.w
              /\ SubSeq(conv.out, 1, k) = SubSeq(conv.v, 1, k)
              /\ \A i \in (k + 1)..conv.w : conv.out[i] = 32
    /\ conv.op = "from_build" =>
          LET k8 == IF Len(conv.v) < 8 THEN Len(conv.v) ELSE 8
              k16 == IF Len(conv.v) < 16 THEN Len(conv.v) ELSE 16
              f8 == SubSeq(conv.v, 1, k8) \o [i \in 1..(8 - k8) |-> 32]
          IN  /\ conv.bin.kstnm = f8
              /\ conv.bin.kt[conv.j] = f8
              /\ conv.bin.kevnm = SubSeq(conv.v, 1, k16) \o [i \in 1..(16 - k16) |-> 32]

\* C14: a text of 17 bytes was written to a field of 16 bytes
C14_Witness ==
    /\ conv.op = "write_string" /\ conv.w = 16
    /\ conv.v = STR_EV17
    /\ conv.out = STR_EV16

\* a text made of whitespace characters only
RECURSIVE AllWs(_)
AllWs(s) ==
    \/ s = <<>>
    \/ WsPrefix(s) > 0 /\ AllWs(SubSeq(s, WsPrefix(s) + 1, Len(s)))

\* out is the text v without the whitespace it starts and ends with
TrimOf(v, out) ==
    \E i \in 0..Len(v), j \in 0..Len(v) :
        /\ i <= j
        /\ out = SubSeq(v, i + 1, j)
        /\ AllWs(SubSeq(v, 1, i)) /\ AllWs(SubSeq(v, j + 1, Len(v)))
        /\ WsPrefix(out) = 0 /\ WsSuffix(out) = 0

\* C15: read_string of a byte field returns a text for every field: the
\* field without its leading and trailing whitespace when the bytes are
\* well-formed UTF-8, and "-12345" when they are not
C15_StringDecode ==
    conv.op = "read_string" =>
        IF IsUtf8(conv.v) THEN TrimOf(conv.v, conv.out)
        ELSE conv.out = SentinelStr

\* C15: a field of 16 bytes that is no text was decoded
C15_Witness ==
    /\ conv.op = "read_string"
    /\ ~IsUtf8(conv.v) /\ Len(conv.v) = 16
    /\ conv.out = SentinelStr

\* C16: an ASCII text of at most w bytes with no leading or trailing
\* whitespace, the empty text included, comes back unchanged from
\* write_string for width w followed by read_string, and from
\* SacBinary::from followed by Sac::build in kstnm and in the element of kt
\* it was put in (w = 8) and in kevnm (w = 16); the other elements of kt
\* come back as they were
C16_StringRoundTrip ==
    /\ (conv.op = "read_string" /\ conv.text[1] = "Some") =>
          (Fits(conv.text[2], conv.text[3]) => conv.out = conv.text[2])
    /\ conv.op = "from_build" =>
          /\ Fits(conv.v, 8) =>
                conv.out.kstnm = conv.v /\ conv.out.kt[conv.j] = conv.v
          /\ Fits(conv.v, 16) => conv.out.kevnm = conv.v
          /\ \A i \in 1..ARRAY_LEN : i # conv.j => conv.out.kt[i] = SentinelStr

\* C16: a text of 8 bytes went through the last element of kt
C16_Witness ==
    /\ conv.op = "from_build" /\ conv.j = ARRAY_LEN
    /\ conv.v = STR_STA8
    /\ conv.out.kt[ARRAY_LEN] = STR_STA8 /\ conv.out.kevnm = STR_STA8

\* C17: converting a 32-bit code c to a file type gives Time, RealImag,
\* AmpPhase, XY and XYZ for 1, 2, 3, 4 and 51 and Unknown with c for every
\* other code, and converting that file type back to an integer gives c
C17_FileTypeKeepsCode ==
    /\ conv.op = "from_i32" =>
          /\ conv.c = 1 => conv.out = <<"Time">>
          /\ conv.c = 2 => conv.out = <<"RealImag">>
          /\ conv.c = 3 => conv.out = <<"AmpPhase">>
          /\ conv.c = 4 => conv.out = <<"XY">>
          /\ conv.c = 51 => conv.out = <<"XYZ">>
          /\ conv.c \notin {1, 2, 3, 4, 51} => conv.out = <<"Unknown", conv.c>>
    /\ conv.op = "into_i32" => conv.out = conv.c

\* C17: the code 7 went to Unknown and back
C17_Witness ==
    /\ conv.op = "into_i32"
    /\ conv.c = 7 /\ conv.t = <<"Unknown", 7>>
    /\ conv.out = 7

C19_SettersInMemory ==
    [][/\ res'.op = "set_header" =>
            /\ res'.r = Ok /\ fs' = fs
            /\ \E h \in SetInputs : sac' = [sac EXCEPT !.h = h]
       /\ res'.op = "set_endian" =>
            /\ res'.r = Ok /\ fs' = fs
            /\ \E e \in Endian : sac' = [sac EXCEPT !.endian = e]
       /\ (res'.op \in Writes /\ check_header(sac.h) # Ok) =>
            /\ res'.r = check_header(sac.h)
            /\ fs' = fs /\ sac' = sac]_vars

\* C19: set_header was given a header that does not pass check_header, for a
\* document whose file exists, and returned normally
C19_Witness ==
    /\ res.op = "set_header" /\ res.r = Ok
    /\ sac.live /\ check_header(sac.h) # Ok
    /\ fs[sac.path].exists

\* C20: after a successful write or write_to the file is SAC_HEADER_SIZE
\* bytes of encoded header, then four bytes for each sample of the first
\* and then of the second channel in the document's byte order, and ends
\* there
C20_WrittenFile ==
    (res.op \in FullWrites /\ res.r = Ok) =>
        LET samples == First(sac) \o Second(sac)
            n == Len(First(sac)) + Len(Second(sac))
            h_buf == encode_header(SacBinaryFrom(sac.h), sac.endian)
        IN  /\ File.exists
            /\ Len(h_buf) = SAC_HEADER_SIZE
            /\ Len(File.bytes) = SAC_HEADER_SIZE + 4 * n
            /\ SubSeq(File.bytes, 1, SAC_HEADER_SIZE) = h_buf
            /\ \A i \in 1..n :
                  SubSeq(File.bytes, SAC_HEADER_SIZE + 4 * (i - 1) + 1,
                         SAC_HEADER_SIZE + 4 * i)
                    = WordBytes(samples[i], sac.endian)

\* C20: a big-endian write of a document with samples in both channels
C20_Witness ==
    /\ res.op = "write" /\ res.r = Ok /\ sac.endian = "Big"
    /\ Len(First(sac)) > 0 /\ Len(Second(sac)) > 0
    /\ Len(File.bytes) = SAC_HEADER_SIZE + 8

\* C21: with version 6 and the file type XYZ (code 51), write, write_to and
\* write_header of the document, and read and read_header of a file whose
\* header decodes so, fail with the unsupported-file-type failure
C21_XYZRejected ==
    /\ (res.op \in Writes /\ sac.h.nvhdr = SAC_HEADER_MAJOR_VERSION
          /\ sac.h.iftype = <<"XYZ">>) =>
          res.r = XYZTypeError
    /\ (res.op \in {"read", "read_header"} /\ HasHeader(File)) =>
          LET v == decode_header(HeaderOf(File.bytes), res.e).v
          IN  (v.nvhdr = SAC_HEADER_MAJOR_VERSION /\ v.iftype = IXYZ) =>
                  res.r = XYZTypeError

\* C21: read_header met a file of type XYZ with the supported version
C21_Witness ==
    /\ res.op = "read_header" /\ res.r = XYZTypeError
    /\ HasHeader(File)
    /\ decode_header(HeaderOf(File.bytes), res.e).v.iftype = IXYZ

\* C22: read_header of a file that holds a whole header fails exactly when
\* the header decoded under the given byte order does not pass check_header;
\* it then returns the failure of check_header, which is the failure read
\* returns for that file and byte order, and the caller gets no document
C22_HeaderOnlyValidates ==
    [][(res'.op = "read_header" /\ HasHeader(fs[res'.path])) =>
        LET p == res'.path
            e == res'.e
            chk == check_header(HeaderUnder(fs[p], e))
        IN  /\ res'.r # Ok <=> chk # Ok
            /\ chk # Ok =>
                  /\ res'.r = chk
                  /\ res'.r = read_in(p, e, FALSE).r
                  /\ sac' = sac]_vars

\* C22: read_header met a whole header of an unsupported version while the
\* caller held no document
C22_Witness ==
    /\ res.op = "read_header" /\ res.r = VersionError(SAC_INT_UNDEF)
    /\ HasHeader(File)
    /\ sac = NoSac

\* C23: read of a file that holds a whole header and a body whose length
\* is no multiple of 4 returns a document or a typed error
C23_PartialSampleTyped ==
    (res.op = "read" /\ HasHeader(File) /\ ~WholeBody(File)) =>
        res.r[1] \in {"Ok", "IO", "Unsupported"}

\* C24: SacBinary::from gives every reserved field its sentinel (-12345.0
\* for internal1, internal2, internal3 and the 7 elements of unused0, -12345
\* for internal4, unused1, unused2 and the 8 elements of unused3, 0 for
\* unused4), and after a successful write, write_to or write_header the bytes
\* of internal1 in the file are -12345.0 in the document's byte order
C24_ReservedSentinel ==
    (res.op \in Writes /\ res.r = Ok) =>
        LET r == SacBinaryFromReserved IN
        /\ SubSeq(File.bytes, 5, 8) = WordBytes(-968825856, sac.endian)
        /\ r.internal1 = -968825856 /\ r.internal2 = -968825856
        /\ r.internal3 = -968825856 /\ r.internal4 = -12345
        /\ Len(r.unused0) = 7 /\ \A i \in 1..7 : r.unused0[i] = -968825856
        /\ r.unused1 = -12345 /\ r.unused2 = -12345
        /\ Len(r.unused3) = 8 /\ \A i \in 1..8 : r.unused3[i] = -12345
        /\ r.unused4 = 0
        /\ SacBinaryFrom(sac.h).internal1 = r.internal1

\* C24: the file at "a" holds 0.01 in internal1; the document read from it
\* was written to "b", where internal1 holds the sentinel
C24_Witness ==
    /\ res.op = "write_to" /\ res.path = "b" /\ res.r = Ok
    /\ sac.path = "a" /\ HasHeader(fs["a"])
    /\ sac.h = HeaderUnder(fs["a"], sac.endian)
    /\ SubSeq(fs["a"].bytes, 5, 8) = WordBytes(F_DELTA, sac.endian)
    /\ SubSeq(fs["b"].bytes, 5, 8) = WordBytes(SAC_FLOAT_UNDEF, sac.endian)

\* C25: read and read_header of a file that a successful write or write_to
\* left, under the byte order opposite to the one it was written in, fail
\* with the unsupported-version failure that carries 6 with its bytes
\* reversed (100663296)
C25_OppositeOrderRejected ==
    (res.op \in {"read", "read_header"} /\ File.exists /\ File.from.live
        /\ File.from.endian # res.e) =>
        res.r = VersionError(100663296)

\* C25: a file written big-endian was read little-endian
C25_Witness ==
    /\ res.op = "read" /\ res.e = "Little"
    /\ File.exists /\ File.from.live /\ File.from.endian = "Big"
    /\ Len(File.from.x) > 0
    /\ res.r = VersionError(100663296)

\* C26: write_to(p) leaves the document (header, both channels, path and
\* byte order) and every file but the one at p as they were; write and
\* write_header go to the path of the document and leave every other file
\* as it was
C26_WriteToFrame ==
    [][/\ res'.op = "write_to" =>
            /\ sac' = sac
            /\ \A q \in Paths \ {res'.path} : fs'[q] = fs[q]
       /\ res'.op \in {"write", "write_header"} =>
            /\ res'.path = sac.path
            /\ \A q \in Paths \ {sac.path} : fs'[q] = fs[q]]_vars

\* C26: a document of path "a" was written to "b" and then written, which
\* made the file at "a"
C26_Witness ==
    /\ res.op = "write" /\ res.r = Ok /\ res.path = "a" /\ nops = 2
    /\ sac.path = "a"
    /\ fs["b"].exists /\ fs["b"].from.live
    /\ fs["a"].exists /\ fs["a"].from = fs["b"].from

====
